---- MODULE Spec2Model ----
(***************************************************************************)
(* A model of cniguru: the legacy text parser of `ip link show`            *)
(* (parse_ip_link_printout), the namespace binding handle (Netns, its      *)
(* interfaces() and its Drop), run_host_cmd, the netlink prototype         *)
(* get_intfs, the top-level try_main loop over the containers of a pod,    *)
(* Pod::containers() with get_kubeconfig_path and extract_container_info,  *)
(* and the correlation of container-side and host-side link records.       *)
(***************************************************************************)
EXTENDS Integers, Sequences, FiniteSets, TLC

VARIABLES
    \* parse_ip_link_printout: the arguments and the returned Result
    printout, req_id, parse_pc, parse_out,
    \* the filesystem at /var/run/netns and /var/run/netns/ns-<pid>
    dir_exists, dir_others, link, dir_by, link_by, prior,
    \* each invocation of gen_output_for_container and its Netns handle
    pc, rmdir_needed, rmlink_needed, netnsid, out, made_dir, made_link, drops,
    \* what gen_output_for_container returned, the removals of Drop that failed,
    \* the calls of interfaces() on the handle and the steps of the current call
    ret, rm_failed, calls, steps,
    \* get_intfs: the network namespace the process is in, and the call
    active_ns, entry_ns, gi_pc, gi_arg, gi_ns, gi_links, gi_out,
    \* main and try_main: the arguments, the pod, the loop and what is printed
    args, containers, output_vec, tm_pc, tm_i, tm_out, reported,
    \* correlation of container-side and host-side link records
    c_links, h_links, co_nsid, h_left, co_i, co_pc, pairs, unmatched, co_out,
    \* Pod::containers(): the environment, the pod the API server answers
    \* with, the kubeconfig path found and the returned Result
    env_kubeconfig, home_dir, home_cfg, admin_conf, pod, k_pc, k_cfg, k_out,
    \* run_host_cmd: the command, what running it gives and the returned Result
    cm_cmd, cm_spawned, cm_stdout, cm_stderr, cm_status, cm_pc, cm_out

parseVars == <<printout, req_id, parse_pc, parse_out>>
fsVars == <<dir_exists, dir_others, link, dir_by, link_by>>
callVars == <<ret, rm_failed, calls>>
auxVars == <<callVars, steps>>
netnsVars == <<fsVars, prior, pc, rmdir_needed, rmlink_needed, netnsid, out,
               made_dir, made_link, drops, auxVars>>
nsVars == <<active_ns, entry_ns, gi_pc, gi_arg, gi_ns, gi_links, gi_out>>
mainVars == <<args, containers, output_vec, tm_pc, tm_i, tm_out, reported>>
corrVars == <<c_links, h_links, co_nsid, h_left, co_i, co_pc, pairs, unmatched, co_out>>
k8sVars == <<env_kubeconfig, home_dir, home_cfg, admin_conf, pod, k_pc, k_cfg, k_out>>
cmdVars == <<cm_cmd, cm_spawned, cm_stdout, cm_stderr, cm_status, cm_pc, cm_out>>
moreVars == <<corrVars, k8sVars, cmdVars>>
coreVars == <<parseVars, netnsVars, nsVars, mainVars>>
corrRest == <<coreVars, k8sVars, cmdVars>>
k8sRest == <<coreVars, corrVars, cmdVars>>
cmdRest == <<coreVars, corrVars, k8sVars>>
vars == <<parseVars, netnsVars, nsVars, mainVars, moreVars>>

(***************************************************************************)
(* Text.  A name is a sequence of tokens: a token is either a maximal run  *)
(* of word characters (what the regex class \w matches) or the single      *)
(* character "-".  A decimal number in the text is a sequence of digits.   *)
(***************************************************************************)
Hyphen == "-"

\* `\w+` at the start of `toks`: the longest prefix made of word characters
RECURSIVE WordPrefix(_)
WordPrefix(toks) ==
    IF toks = <<>> \/ Head(toks) = Hyphen THEN <<>>
    ELSE <<Head(toks)>> \o WordPrefix(Tail(toks))

\* `\w+` followed by a delimiter (`@`, `:` or `\s+`) matches `toks` in full
IsWord(toks) == toks # <<>> /\ WordPrefix(toks) = toks

IsPrefix(s, t) == Len(s) <= Len(t) /\ SubSeq(t, 1, Len(s)) = s

\* format!("{}", id) of an unsigned integer
RECURSIVE DecimalDigits(_)
DecimalDigits(n) ==
    IF n < 10 THEN <<n>> ELSE Append(DecimalDigits(n \div 10), n % 10)

\* the value of a run of decimal digits
RECURSIVE DigitsValue(_)
DigitsValue(ds) ==
    IF ds = <<>> THEN 0
    ELSE 10 * DigitsValue(SubSeq(ds, 1, Len(ds) - 1)) + ds[Len(ds)]

U16Max == 65535

\* str::parse::<u16>() wrapping the value instead of failing (mutant)
ParseU16Wrapping(ds) ==
    [ok |-> TRUE, val |-> DigitsValue(ds) % (U16Max + 1)]

\* str::parse::<u16>(): Err(ParseIntError) when the value does not fit
ParseU16(ds) ==
    IF ds # <<>> /\ DigitsValue(ds) <= U16Max
    THEN [ok |-> TRUE, val |-> DigitsValue(ds)]
    ELSE [ok |-> FALSE, val |-> 0]

(***************************************************************************)
(* One entry of a well-formed `ip link show` dump: the summary line        *)
(*   <idx>: <name>[@<peer>]: <FLAGS> mtu <mtu> ... [master <master>] ...   *)
(* and the address line                                                    *)
(*   link/<ltype> <mac> brd <brd> [link-netnsid <nsid>]                    *)
(* `peer`, `master` and `nsid` are <<>> when the text has none.            *)
(***************************************************************************)
Entry(idx, name, peer, mtu, master, ltype, mac, nsid) ==
    [idx |-> idx, name |-> name, peer |-> peer, mtu |-> mtu, master |-> master,
     ltype |-> ltype, mac |-> mac, nsid |-> nsid]

None == <<>>
Some(x) == <<x>>

Intf(name, mtu, mac_address, bridge) ==
    [name |-> name, mtu |-> mtu, mac_address |-> mac_address, bridge |-> bridge]

\* Result<Vec<Intf>, Error>: an error carries no records
Ok(v) == [ok |-> TRUE, err |-> "", arg |-> 0, cmd |-> "", intfs |-> v]
Err(e, a, c) == [ok |-> FALSE, err |-> e, arg |-> a, cmd |-> c, intfs |-> <<>>]
IntfMatchError(id) == Err("IntfMatchError", id, "")
ParseIntError == Err("ParseIntError", 0, "")
CmdFailed(c) == Err("CmdFailed", 0, c)
OutputParsingError(c) == Err("OutputParsingError", 0, c)
IoError(c) == Err("io::Error", 0, c)
NoResult == Err("", 0, "")

(***************************************************************************)
(* The regex of parse_ip_link_printout on one entry.  `.` does not match   *)
(* a line break and `\s+` does, so a match starts at the `<idx>: ` of a    *)
(* summary line and ends on the address line that follows it.              *)
(***************************************************************************)
\* `\d+:\s+(?P<name>\w+)@\w+:`
MatchesName(e) == IsWord(e.name) /\ IsWord(e.peer)

\* `.*\s+link/ether\s+(?P<mac>(\w|:)+)\s+`
MatchesEther(e) == e.ltype = "ether"

\* `.*link-netnsid` followed by format!(" {}", id): nothing anchors the end
MatchesNetnsid(e, id) == IsPrefix(DecimalDigits(id), e.nsid)

RegexMatches(e, id) == MatchesName(e) /\ MatchesEther(e) /\ MatchesNetnsid(e, id)

\* `(?:.*\s+master\s+(?P<br>\w+)\s+)?`: the group is skipped when `\w+`
\* stops before the whitespace that must follow it
CaptureBr(e) ==
    IF e.master # <<>> /\ WordPrefix(e.master) = e.master
    THEN Some(e.master) ELSE None

\* the loop over re.captures_iter(printout) and the final length test
RECURSIVE CapturesLoop(_, _, _)
CapturesLoop(entries, id, res) ==
    IF entries = <<>>
    THEN IF Len(res) = 0 THEN IntfMatchError(id) ELSE Ok(res)
    ELSE LET e == Head(entries)
             mtu == ParseU16(e.mtu)
         IN  IF ~RegexMatches(e, id)
             THEN CapturesLoop(Tail(entries), id, res)
             ELSE IF ~mtu.ok
             THEN ParseIntError
             ELSE CapturesLoop(Tail(entries), id,
                      Append(res, Intf(e.name, mtu.val, e.mac, CaptureBr(e))))

parse_ip_link_printout(text, id) == CapturesLoop(text, id, <<>>)

(***************************************************************************)
(* The entries the dumps are built from: those of the two dumps of         *)
(* tests.rs, and entries a well-formed dump may also hold.                 *)
(***************************************************************************)
E_lo == Entry(1, <<"lo">>, None, <<6,5,5,3,6>>, None, "loopback",
              "00:00:00:00:00:00", None)
E_vethc3 == Entry(2, <<"vethc3cef48b">>, <<"if3">>, <<1,4,5,0>>, <<"cni0">>, "ether",
                  "e6:93:28:78:39:99", <<0>>)
E_enp == Entry(3, <<"enp0s31f6">>, None, <<1,5,0,0>>, None, "ether",
               "c8:5b:76:72:53:46", None)
E_veth55 == Entry(14, <<"veth551a254e">>, <<"if3">>, <<1,4,5,0>>, <<"cni0">>, "ether",
                  "12:56:7d:9f:80:15", <<1>>)
E_multus == Entry(610, <<"veth987c7292">>, <<"if5">>, <<1,5,0,0>>,
                  <<"bla", Hyphen, "bla", Hyphen, "int0">>, "ether",
                  "46:ed:60:c6:e9:73", <<6>>)
E_nsid10 == Entry(20, <<"vetha0b1c2d3">>, <<"if7">>, <<1,5,0,0>>, None, "ether",
                  "0a:00:00:00:00:10", <<1,0>>)
E_jumbo == Entry(21, <<"vethjumbo">>, <<"if9">>, <<7,0,0,0,0>>, None, "ether",
                 "0a:00:00:00:00:21", <<1>>)
E_plain == Entry(22, <<"vethplain">>, <<"if4">>, <<9,0,0,0>>, None, "ether",
                 "0a:00:00:00:00:22", <<1>>)
E_hyphen == Entry(23, <<"veth", Hyphen, "app">>, <<"if6">>, <<1,5,0,0>>, <<"cni0">>, "ether",
                  "0a:00:00:00:00:23", <<6>>)

Entries == {E_lo, E_vethc3, E_enp, E_veth55, E_multus, E_nsid10, E_jumbo,
            E_plain, E_hyphen}

\* the dump of test_parse_ip_link_printout_multus
MultusDump == <<E_multus>>

MaxEntries == 2
MaxId == 6

Dumps == UNION {[1..n -> Entries] : n \in 0..MaxEntries}
Ids == 0..MaxId

(***************************************************************************)
(* The namespace binding.  The model follows the binding of one container  *)
(* pid: the directory /var/run/netns (whose parent /var/run exists), the   *)
(* entry /var/run/netns/ns-<pid> in it, and whether the directory holds    *)
(* other entries.  `link` is "absent", "valid" (a symlink whose target     *)
(* resolves) or "dangling" (a symlink whose target does not resolve).      *)
(* dir_by and link_by name who created what is there now: "pre" (there     *)
(* before the invocation), a handle, or "other"; prior is the state of     *)
(* the filesystem before the invocation.                                   *)
(***************************************************************************)
Handles == {"h1", "h2"}
LinkStates == {"absent", "valid", "dangling"}

\* the dumps `ip link show` prints in the runs of interfaces()
SampleDumps == {<<E_lo, E_vethc3, E_enp, E_veth55>>, MultusDump, <<E_enp, E_jumbo>>}

FsState == [dir |-> dir_exists, others |-> dir_others, link |-> link]

\* Path::exists() answering for the entry itself, as symlink_metadata would (mutant)
PathExistsNoFollow(l) == l # "absent"

\* Path::exists(): follows the symlink, false when the target does not resolve
PathExists(l) == l = "valid"

\* where a `?` inside gen_output_for_container leads, skipping the drop (mutant)
ErrorExitLeaks == "returned"

\* a `?` leaves gen_output_for_container after the temporary Netns is dropped
ErrorExit == "drop_link"

\* Drop removing the symlink whether or not this handle created it (mutant)
RemoveLinkAlways(h) == TRUE

\* Drop: `if self.rmlink_needed`
RemoveLinkWanted(h) == rmlink_needed[h]

\* Drop: `if self.rmdir_needed`
RemoveDirWanted(h) == rmdir_needed[h]

\* fs::remove_file(dst_path): fails (and is only logged) when nothing is there
LinkAfterRemoveFile(l) == "absent"

\* fs::remove_dir(parent_dir): succeeds on an existing, empty directory
RemoveDirSucceeds(d, l, o) == d /\ l = "absent" /\ ~o

\* what an invocation leaves alone
restVars == <<parseVars, nsVars, mainVars, moreVars>>

\* the value gen_output_for_container returns: Ok(Output { container,
\* interfaces }) or the error under the context ctx
Returned(h, res, ctx) ==
    [ok |-> res.ok,
     container |-> IF res.ok THEN h ELSE "",
     interfaces |-> res.intfs,
     context |-> IF res.ok THEN "" ELSE ctx,
     cause |-> IF res.ok THEN NoResult ELSE res]

NoReturn == Returned("", NoResult, "")

Ctx1 == "failed to find the namespace for container id"
Ctx2 == "failed to find the host interfaces for container id"

\* a release whose failed removal becomes the value returned
OutputOrRemovalError(h, res, failed) ==
    IF failed # {} THEN Returned(h, IoError("remove"), Ctx2) ELSE Returned(h, res, Ctx2)

\* `.interfaces().context(ctx2)?` and `Ok(Output { container, interfaces })`:
\* the value is fixed before the temporary Netns is dropped, and Drop returns ()
OutputOrContext(h, res, failed) == Returned(h, res, Ctx2)

AuxInit ==
    /\ ret = [h \in Handles |-> NoReturn]
    /\ rm_failed = [h \in Handles |-> {}]
    /\ calls = [h \in Handles |-> 0]
    /\ steps = [h \in Handles |-> <<>>]

\* the step `s` of interfaces() is entered
Step(h, s) == steps' = [steps EXCEPT ![h] = Append(@, s)]

NetnsIdle ==
    /\ dir_exists = TRUE
    /\ dir_others = FALSE
    /\ link = "absent"
    /\ dir_by = "pre"
    /\ link_by = "none"
    /\ prior = [dir |-> TRUE, others |-> FALSE, link |-> "absent"]
    /\ pc = [h \in Handles |-> "start"]
    /\ rmdir_needed = [h \in Handles |-> FALSE]
    /\ rmlink_needed = [h \in Handles |-> FALSE]
    /\ netnsid = [h \in Handles |-> 0]
    /\ out = [h \in Handles |-> NoResult]
    /\ made_dir = [h \in Handles |-> FALSE]
    /\ made_link = [h \in Handles |-> FALSE]
    /\ drops = [h \in Handles |-> 0]
    /\ AuxInit

NsIdle ==
    /\ active_ns = "root"
    /\ entry_ns = "root"
    /\ gi_pc = "idle"
    /\ gi_arg = "None"
    /\ gi_ns = "root"
    /\ gi_links = 0
    /\ gi_out = "none"

MainIdle ==
    /\ args = [cmd_pod |-> FALSE, json |-> FALSE]
    /\ containers = <<>>
    /\ output_vec = <<>>
    /\ tm_pc = "idle"
    /\ tm_i = 0
    /\ tm_out = "none"
    /\ reported = <<>>

CorrIdle ==
    /\ c_links = <<>>
    /\ h_links = <<>>
    /\ co_nsid = 0
    /\ h_left = {}
    /\ co_i = 0
    /\ co_pc = "idle"
    /\ pairs = <<>>
    /\ unmatched = <<>>
    /\ co_out = NoResult

\* a kubeconfig path, or the error of get_kubeconfig_path
PathOk(p) == [ok |-> TRUE, err |-> "", path |-> p]
PathErr(e) == [ok |-> FALSE, err |-> e, path |-> <<>>]

\* the containers of a pod, or the error of Pod::containers()
ContainersOk(v) == [ok |-> TRUE, err |-> "", ctx |-> "", containers |-> v]
ContainersErr(e, c) == [ok |-> FALSE, err |-> e, ctx |-> c, containers |-> <<>>]

K8sIdle ==
    /\ env_kubeconfig = None
    /\ home_dir = None
    /\ home_cfg = "absent"
    /\ admin_conf = "absent"
    /\ pod = [status |-> None, node_name |-> None]
    /\ k_pc = "idle"
    /\ k_cfg = PathErr("")
    /\ k_out = ContainersErr("", "")

\* the bytes of a stream of the command, as from_utf8 sees them
Stream(utf8, text) == [utf8 |-> utf8, text |-> text]

\* Result<String, Error> of run_host_cmd
CmdOk(so) ==
    [ok |-> TRUE, err |-> "", cmd |-> <<>>, code |-> "", stderr |-> <<>>, stdout |-> so]
CmdErr(e, cmd, code, se) ==
    [ok |-> FALSE, err |-> e, cmd |-> cmd, code |-> code, stderr |-> se, stdout |-> <<>>]

CmdIdle ==
    /\ cm_cmd = <<>>
    /\ cm_spawned = FALSE
    /\ cm_stdout = Stream(TRUE, <<>>)
    /\ cm_stderr = Stream(TRUE, <<>>)
    /\ cm_status = None
    /\ cm_pc = "idle"
    /\ cm_out = CmdErr("", <<>>, "", <<>>)

MoreIdle == CorrIdle /\ K8sIdle /\ CmdIdle

NetnsInit ==
    /\ dir_exists \in BOOLEAN
    /\ dir_others \in BOOLEAN
    /\ link \in LinkStates
    /\ ~dir_exists => (~dir_others /\ link = "absent")
    /\ dir_by = IF dir_exists THEN "pre" ELSE "none"
    /\ link_by = IF link # "absent" THEN "pre" ELSE "none"
    /\ prior = FsState
    /\ pc = [h \in Handles |-> "start"]
    /\ rmdir_needed = [h \in Handles |-> FALSE]
    /\ rmlink_needed = [h \in Handles |-> FALSE]
    /\ netnsid = [h \in Handles |-> 0]
    /\ out = [h \in Handles |-> NoResult]
    /\ made_dir = [h \in Handles |-> FALSE]
    /\ made_link = [h \in Handles |-> FALSE]
    /\ drops = [h \in Handles |-> 0]
    /\ AuxInit

\* an error returned with `?` from inside interfaces()
Fail(h, e) ==
    /\ out' = [out EXCEPT ![h] = e]
    /\ pc' = [pc EXCEPT ![h] = ErrorExit]

Goto(h, to) == pc' = [pc EXCEPT ![h] = to]

\* Container::netns(): pid() fails and no Netns is built
PidFails(h) ==
    /\ pc[h] = "start"
    /\ out' = [out EXCEPT ![h] = CmdFailed("docker inspect")]
    /\ Goto(h, "returned")
    /\ ret' = [ret EXCEPT ![h] = Returned(h, CmdFailed("docker inspect"), Ctx1)]
    /\ UNCHANGED <<fsVars, prior, rmdir_needed, rmlink_needed, netnsid,
                   made_dir, made_link, drops, rm_failed, calls, steps, restVars>>

\* Container::netns(): Netns::new(pid)
Netns_new(h) ==
    /\ pc[h] = "start"
    /\ rmdir_needed' = [rmdir_needed EXCEPT ![h] = FALSE]
    /\ rmlink_needed' = [rmlink_needed EXCEPT ![h] = FALSE]
    /\ Goto(h, "check_dir")
    /\ calls' = [calls EXCEPT ![h] = 1]
    /\ UNCHANGED <<fsVars, prior, netnsid, out, made_dir, made_link, drops,
                   ret, rm_failed, steps, restVars>>

\* `if !parent_dir.exists()`
CheckParentDir(h) ==
    /\ pc[h] = "check_dir"
    /\ Goto(h, IF dir_exists THEN "check_link" ELSE "create_dir")
    /\ Step(h, "ensure_dir")
    /\ UNCHANGED <<fsVars, prior, rmdir_needed, rmlink_needed, netnsid, out,
                   made_dir, made_link, drops, callVars, restVars>>

\* fs::create_dir_all(parent_dir)?: Ok also when the directory is there by now
CreateDirAll(h) ==
    /\ pc[h] = "create_dir"
    /\ dir_exists' = TRUE
    /\ dir_by' = IF dir_exists THEN dir_by ELSE h
    /\ made_dir' = [made_dir EXCEPT ![h] = ~dir_exists]
    /\ rmdir_needed' = [rmdir_needed EXCEPT ![h] = TRUE]
    /\ Goto(h, "check_link")
    /\ UNCHANGED <<dir_others, link, link_by, prior, rmlink_needed, netnsid, out,
                   made_link, drops, auxVars, restVars>>

CreateDirAllFails(h) ==
    /\ pc[h] = "create_dir"
    /\ Fail(h, IoError("create_dir_all"))
    /\ UNCHANGED <<fsVars, prior, rmdir_needed, rmlink_needed, netnsid,
                   made_dir, made_link, drops, auxVars, restVars>>

\* `if !self.dst_path.exists()` written so that a binding found present
\* clears the mark of the handle
CheckDstPathForgets(h) ==
    /\ pc[h] = "check_link"
    /\ Goto(h, IF PathExists(link) THEN "identify" ELSE "symlink")
    /\ rmlink_needed' = [rmlink_needed EXCEPT ![h] = ~PathExists(link) /\ @]
    /\ Step(h, "ensure_link")
    /\ UNCHANGED <<fsVars, prior, rmdir_needed, netnsid, out,
                   made_dir, made_link, drops, callVars, restVars>>

\* `if !self.dst_path.exists()`
CheckDstPath(h) ==
    /\ pc[h] = "check_link"
    /\ Goto(h, IF PathExists(link) THEN "identify" ELSE "symlink")
    /\ Step(h, "ensure_link")
    /\ UNCHANGED <<fsVars, prior, rmdir_needed, rmlink_needed, netnsid, out,
                   made_dir, made_link, drops, callVars, restVars>>

\* symlink(src_path, dst_path)? succeeding
Symlink(h) ==
    /\ pc[h] = "symlink"
    /\ dir_exists /\ link = "absent"
    /\ link' = "valid"
    /\ link_by' = h
    /\ made_link' = [made_link EXCEPT ![h] = TRUE]
    /\ rmlink_needed' = [rmlink_needed EXCEPT ![h] = TRUE]
    /\ Goto(h, "identify")
    /\ UNCHANGED <<dir_exists, dir_others, dir_by, prior, rmdir_needed, netnsid, out,
                   made_dir, drops, auxVars, restVars>>

\* symlink(src_path, dst_path)? failing: the entry is there (EEXIST), the
\* directory is not (ENOENT), or the caller may not write to it (EACCES)
SymlinkFails(h) ==
    /\ pc[h] = "symlink"
    /\ Fail(h, IoError(IF link # "absent" THEN "symlink: EEXIST"
                       ELSE IF ~dir_exists THEN "symlink: ENOENT"
                       ELSE "symlink: EACCES"))
    /\ UNCHANGED <<fsVars, prior, rmdir_needed, rmlink_needed, netnsid,
                   made_dir, made_link, drops, auxVars, restVars>>

\* run_host_cmd(cmd)? at step `at`: Ok goes on to `to`, Err leaves
RunHostCmd(h, at, to, cmd) ==
    /\ pc[h] = at
    /\ \/ /\ Goto(h, to)
          /\ UNCHANGED out
       \/ Fail(h, CmdFailed(cmd))
    /\ Step(h, at)
    /\ UNCHANGED <<fsVars, prior, rmdir_needed, rmlink_needed, netnsid,
                   made_dir, made_link, drops, callVars, restVars>>

\* `ip netns identify` followed at once by the extraction
IpNetnsIdentifySkipsList(h) == RunHostCmd(h, "identify", "extract", "ip netns identify")

\* run_host_cmd("ip netns identify <pid>")?
IpNetnsIdentify(h) == RunHostCmd(h, "identify", "list", "ip netns identify")

\* run_host_cmd("ip netns list | grep <output>")?
IpNetnsList(h) == RunHostCmd(h, "list", "extract", "ip netns list")

\* RE1.captures(&output): `(id: <n>)` gives the link-netnsid, or an error
ExtractId(h) ==
    /\ pc[h] = "extract"
    /\ \/ \E n \in Ids :
            /\ netnsid' = [netnsid EXCEPT ![h] = n]
            /\ Goto(h, "show")
            /\ UNCHANGED out
       \/ /\ Fail(h, OutputParsingError("ip netns list"))
          /\ UNCHANGED netnsid
    /\ Step(h, "extract")
    /\ UNCHANGED <<fsVars, prior, rmdir_needed, rmlink_needed,
                   made_dir, made_link, drops, callVars, restVars>>

\* run_host_cmd("ip link show")?
IpLinkShow(h) == RunHostCmd(h, "show", "parse", "ip link show")

\* parse_ip_link_printout(&output, id), the value of interfaces()
ParsePrintout(h) ==
    /\ pc[h] = "parse"
    /\ \E d \in SampleDumps :
          out' = [out EXCEPT ![h] = parse_ip_link_printout(d, netnsid[h])]
    /\ Goto(h, "drop_link")
    /\ Step(h, "parse")
    /\ UNCHANGED <<fsVars, prior, rmdir_needed, rmlink_needed, netnsid,
                   made_dir, made_link, drops, callVars, restVars>>

\* Drop for Netns, first half: remove_file(dst_path) if rmlink_needed
DropLink(h) ==
    /\ pc[h] = "drop_link"
    /\ IF RemoveLinkWanted(h) /\ link # "absent"
       THEN /\ link' = LinkAfterRemoveFile(link)
            /\ link_by' = "none"
       ELSE UNCHANGED <<link, link_by>>
    /\ rm_failed' = [rm_failed EXCEPT ![h] =
          IF RemoveLinkWanted(h) /\ link = "absent" THEN @ \cup {"file"} ELSE @]
    /\ Goto(h, "drop_dir")
    /\ UNCHANGED <<dir_exists, dir_others, dir_by, prior, rmdir_needed, rmlink_needed,
                   netnsid, out, made_dir, made_link, drops, ret, calls, steps,
                   restVars>>

\* Drop for Netns, second half: remove_dir(parent_dir) if rmdir_needed;
\* then gen_output_for_container returns out[h]
DropDir(h) ==
    /\ pc[h] = "drop_dir"
    /\ IF RemoveDirWanted(h) /\ RemoveDirSucceeds(dir_exists, link, dir_others)
       THEN /\ dir_exists' = FALSE
            /\ dir_by' = "none"
       ELSE UNCHANGED <<dir_exists, dir_by>>
    /\ LET failed == IF RemoveDirWanted(h)
                        /\ ~RemoveDirSucceeds(dir_exists, link, dir_others)
                     THEN rm_failed[h] \cup {"dir"} ELSE rm_failed[h]
       IN  /\ rm_failed' = [rm_failed EXCEPT ![h] = failed]
           /\ ret' = [ret EXCEPT ![h] = OutputOrContext(h, out[h], failed)]
    /\ drops' = [drops EXCEPT ![h] = 1]
    /\ Goto(h, "returned")
    /\ UNCHANGED <<dir_others, link, link_by, prior, rmdir_needed, rmlink_needed,
                   netnsid, out, made_dir, made_link, calls, steps, restVars>>

\* Drop, first half, with remove_file(dst_path) failing for a reason of its
\* own (EPERM, EROFS, EIO): `Err(e) => debug!(..)`
DropLinkFails(h) ==
    /\ pc[h] = "drop_link"
    /\ RemoveLinkWanted(h)
    /\ rm_failed' = [rm_failed EXCEPT ![h] = @ \cup {"file"}]
    /\ Goto(h, "drop_dir")
    /\ UNCHANGED <<fsVars, prior, rmdir_needed, rmlink_needed, netnsid, out,
                   made_dir, made_link, drops, ret, calls, steps, restVars>>

\* Drop, second half, with remove_dir(parent_dir) failing for a reason of its
\* own; then gen_output_for_container returns
DropDirFails(h) ==
    /\ pc[h] = "drop_dir"
    /\ RemoveDirWanted(h)
    /\ LET failed == rm_failed[h] \cup {"dir"}
       IN  /\ rm_failed' = [rm_failed EXCEPT ![h] = failed]
           /\ ret' = [ret EXCEPT ![h] = OutputOrContext(h, out[h], failed)]
    /\ drops' = [drops EXCEPT ![h] = 1]
    /\ Goto(h, "returned")
    /\ UNCHANGED <<fsVars, prior, rmdir_needed, rmlink_needed, netnsid, out,
                   made_dir, made_link, calls, steps, restVars>>

\* gen_output_for_container(container) for the invocation h
Invocation(h) ==
    \/ PidFails(h) \/ Netns_new(h)
    \/ CheckParentDir(h) \/ CreateDirAll(h) \/ CreateDirAllFails(h)
    \/ CheckDstPath(h) \/ Symlink(h) \/ SymlinkFails(h)
    \/ IpNetnsIdentify(h) \/ IpNetnsList(h) \/ ExtractId(h) \/ IpLinkShow(h)
    \/ ParsePrintout(h)
    \/ DropLink(h) \/ DropDir(h)


(***************************************************************************)
(* parse_ip_link_printout on its own, for every dump and id in the bounds. *)
(***************************************************************************)
ParseIdle ==
    /\ printout = <<>>
    /\ req_id = 0
    /\ parse_pc = "idle"
    /\ parse_out = NoResult

ParseInit ==
    /\ NetnsIdle /\ NsIdle /\ MainIdle /\ MoreIdle
    /\ printout \in Dumps
    /\ req_id \in Ids
    /\ parse_pc = "call"
    /\ parse_out = NoResult

ParseCall ==
    /\ parse_pc = "call"
    /\ parse_out' = parse_ip_link_printout(printout, req_id)
    /\ parse_pc' = "returned"
    /\ UNCHANGED <<printout, req_id, netnsVars, nsVars, mainVars, moreVars>>

ParseNext == ParseCall

SpecParse == ParseInit /\ [][ParseNext]_vars

(***************************************************************************)
(* One invocation of gen_output_for_container, from every prior state of   *)
(* /var/run/netns.                                                         *)
(***************************************************************************)
Init == ParseIdle /\ NetnsInit /\ NsIdle /\ MainIdle /\ MoreIdle

Next == \E h \in {"h1"} : Invocation(h)

Spec == Init /\ [][Next]_vars

(***************************************************************************)
(* The same invocation when the removals of Drop may fail.                 *)
(***************************************************************************)
NextDropFails == Next \/ \E h \in {"h1"} : DropLinkFails(h) \/ DropDirFails(h)

SpecDropFails == Init /\ [][NextDropFails]_vars

(***************************************************************************)
(* interfaces() called again on a handle that is still alive.              *)
(***************************************************************************)
MaxCalls == 2

\* a further netns.interfaces() on the handle h, after the last one returned
\* and before the handle is dropped
InterfacesAgain(h) ==
    /\ pc[h] = "drop_link"
    /\ calls[h] < MaxCalls
    /\ calls' = [calls EXCEPT ![h] = @ + 1]
    /\ steps' = [steps EXCEPT ![h] = <<>>]
    /\ out' = [out EXCEPT ![h] = NoResult]
    /\ Goto(h, "check_dir")
    /\ UNCHANGED <<fsVars, prior, rmdir_needed, rmlink_needed, netnsid,
                   made_dir, made_link, drops, ret, rm_failed, restVars>>

NextRecall == Next \/ \E h \in {"h1"} : InterfacesAgain(h)

SpecRecall == Init /\ [][NextRecall]_vars

(***************************************************************************)
(* The release logic of a handle run once more, and another party         *)
(* creating a binding at the same path after the handle was released.      *)
(***************************************************************************)
MaxReleases == 2

\* the body of Drop::drop run again on the handle h
ReleaseAgain(h) ==
    /\ pc[h] = "returned"
    /\ drops[h] >= 1 /\ drops[h] < MaxReleases
    /\ LET l1 == IF RemoveLinkWanted(h) /\ link # "absent"
                 THEN LinkAfterRemoveFile(link) ELSE link
           d1 == IF RemoveDirWanted(h) /\ RemoveDirSucceeds(dir_exists, l1, dir_others)
                 THEN FALSE ELSE dir_exists
       IN  /\ link' = l1
           /\ link_by' = IF l1 = link THEN link_by ELSE "none"
           /\ dir_exists' = d1
           /\ dir_by' = IF d1 = dir_exists THEN dir_by ELSE "none"
    /\ drops' = [drops EXCEPT ![h] = @ + 1]
    /\ UNCHANGED <<dir_others, prior, pc, rmdir_needed, rmlink_needed, netnsid, out,
                   made_dir, made_link, auxVars, restVars>>

\* another party binds a namespace at /var/run/netns/ns-<pid>
OtherCreates ==
    /\ \E h \in Handles : drops[h] >= 1
    /\ link = "absent"
    /\ dir_exists' = TRUE
    /\ dir_by' = IF dir_exists THEN dir_by ELSE "other"
    /\ link' = "valid"
    /\ link_by' = "other"
    /\ UNCHANGED <<dir_others, prior, pc, rmdir_needed, rmlink_needed, netnsid, out,
                   made_dir, made_link, drops, auxVars, restVars>>

NextRerelease == Next \/ OtherCreates \/ \E h \in {"h1"} : ReleaseAgain(h)

SpecRerelease == Init /\ [][NextRerelease]_vars

(***************************************************************************)
(* get_intfs(netns_pid): the process is in one network namespace at a      *)
(* time; NetNS::set moves it.                                              *)
(***************************************************************************)
Namespaces == {"root", "ns_a", "ns_b"}
Procs == {"init", "ctr_a", "ctr_b"}
NsOf == [p \in Procs |-> CASE p = "init" -> "root"
                           [] p = "ctr_a" -> "ns_a"
                           [] p = "ctr_b" -> "ns_b"]
MaxLinks == 2

NsInit == ParseIdle /\ NetnsIdle /\ NsIdle /\ MainIdle /\ MoreIdle

\* a top-level call get_intfs(netns_pid), netns_pid None or Some(pid)
GetIntfsCall ==
    /\ gi_pc \in {"idle", "returned"}
    /\ \E a \in {"None"} \cup Procs :
          /\ gi_arg' = a
          /\ gi_pc' = IF a = "None" THEN "iter_links" ELSE "get_from_process"
    /\ entry_ns' = active_ns
    /\ gi_out' = "none"
    /\ UNCHANGED <<active_ns, gi_ns, gi_links, parseVars, netnsVars, mainVars, moreVars>>

\* NetNS::get_from_process(pid).unwrap()
GetFromProcess ==
    /\ gi_pc = "get_from_process"
    /\ \/ /\ gi_ns' = NsOf[gi_arg]
          /\ gi_pc' = "set"
       \/ /\ gi_pc' = "panicked"
          /\ UNCHANGED gi_ns
    /\ UNCHANGED <<active_ns, entry_ns, gi_arg, gi_links, gi_out,
                   parseVars, netnsVars, mainVars, moreVars>>

\* NetNS::set(ns)?
NetNS_set ==
    /\ gi_pc = "set"
    /\ \/ /\ active_ns' = gi_ns
          /\ gi_pc' = "iter_links"
          /\ UNCHANGED gi_out
       \/ /\ gi_out' = "Err"
          /\ gi_pc' = "returned"
          /\ UNCHANGED active_ns
    /\ UNCHANGED <<entry_ns, gi_arg, gi_ns, gi_links, parseVars, netnsVars, mainVars, moreVars>>

\* conn.iter_links().unwrap().collect()
IterLinks ==
    /\ gi_pc = "iter_links"
    /\ \/ /\ gi_links' \in 0..MaxLinks
          /\ gi_pc' = "for_link"
       \/ /\ gi_pc' = "panicked"
          /\ UNCHANGED gi_links
    /\ UNCHANGED <<active_ns, entry_ns, gi_arg, gi_ns, gi_out,
                   parseVars, netnsVars, mainVars, moreVars>>

\* `for link in links`: conn.get_link_addrs(None, &link).unwrap() and the Intf
ForLink ==
    /\ gi_pc = "for_link"
    /\ gi_links > 0
    /\ \/ /\ gi_links' = gi_links - 1
          /\ UNCHANGED gi_pc
       \/ /\ gi_pc' = "panicked"
          /\ UNCHANGED gi_links
    /\ UNCHANGED <<active_ns, entry_ns, gi_arg, gi_ns, gi_out,
                   parseVars, netnsVars, mainVars, moreVars>>

\* the end of the function body
GetIntfsReturn ==
    /\ gi_pc = "for_link"
    /\ gi_links = 0
    /\ gi_out' = "Ok"
    /\ gi_pc' = "returned"
    /\ UNCHANGED <<active_ns, entry_ns, gi_arg, gi_ns, gi_links,
                   parseVars, netnsVars, mainVars, moreVars>>

NextNs ==
    \/ GetIntfsCall \/ GetFromProcess \/ NetNS_set
    \/ IterLinks \/ ForLink \/ GetIntfsReturn

SpecNs == NsInit /\ [][NextNs]_vars

(***************************************************************************)
(* main and try_main.  A container of the pod is healthy when              *)
(* gen_output_for_container succeeds on it.                                *)
(***************************************************************************)
MaxContainers == 3

ContainerOf(i, healthy) == [id |-> i, healthy |-> healthy]

Pods == UNION {[1..n -> BOOLEAN] : n \in 0..MaxContainers}

MainInit ==
    /\ ParseIdle /\ NetnsIdle /\ NsIdle /\ MoreIdle
    /\ args \in [cmd_pod : BOOLEAN, json : BOOLEAN]
    /\ \E p \in Pods :
          /\ ~args.cmd_pod => Len(p) = 1
          /\ containers = [i \in 1..Len(p) |-> ContainerOf(i, p[i])]
    /\ output_vec = <<>>
    /\ tm_pc = "try_main"
    /\ tm_i = 0
    /\ tm_out = "none"
    /\ reported = <<>>

\* `pod.containers().context(err_ctx)?` succeeding: the loop starts
PodContainers ==
    /\ tm_pc = "try_main" /\ args.cmd_pod
    /\ tm_pc' = "for_container"
    /\ tm_i' = 1
    /\ UNCHANGED <<args, containers, output_vec, tm_out, reported,
                   parseVars, netnsVars, nsVars, moreVars>>

PodContainersFails ==
    /\ tm_pc = "try_main" /\ args.cmd_pod
    /\ tm_out' = "Err"
    /\ tm_pc' = "print"
    /\ UNCHANGED <<args, containers, output_vec, tm_i, reported,
                   parseVars, netnsVars, nsVars, moreVars>>

\* one pass of `for container in containers`: `gen_output_for_container(container)?`
\* returns the error from try_main, or the output is pushed
ForContainer ==
    /\ tm_pc = "for_container"
    /\ tm_i <= Len(containers)
    /\ IF containers[tm_i].healthy
       THEN /\ output_vec' = Append(output_vec, containers[tm_i].id)
            /\ tm_i' = tm_i + 1
            /\ UNCHANGED <<tm_pc, tm_out>>
       ELSE /\ tm_pc' = "print"
            /\ tm_out' = "Err"
            /\ UNCHANGED <<output_vec, tm_i>>
    /\ UNCHANGED <<args, containers, reported, parseVars, netnsVars, nsVars, moreVars>>

\* `Ok(output_vec)` after the loop
TryMainOk ==
    /\ tm_pc = "for_container"
    /\ tm_i > Len(containers)
    /\ tm_out' = "Ok"
    /\ tm_pc' = "print"
    /\ UNCHANGED <<args, containers, output_vec, tm_i, reported,
                   parseVars, netnsVars, nsVars, moreVars>>

\* the cmd_dc branch: one container
DockerContainer ==
    /\ tm_pc = "try_main" /\ ~args.cmd_pod
    /\ IF containers[1].healthy
       THEN /\ output_vec' = Append(output_vec, containers[1].id)
            /\ tm_out' = "Ok"
       ELSE /\ tm_out' = "Err"
            /\ UNCHANGED output_vec
    /\ tm_pc' = "print"
    /\ UNCHANGED <<args, containers, tm_i, reported, parseVars, netnsVars, nsVars, moreVars>>

\* main: Ok(v) prints the outputs, Err(e) prints the error and nothing else
MainPrint ==
    /\ tm_pc = "print"
    /\ reported' = IF tm_out = "Ok" THEN output_vec ELSE <<>>
    /\ tm_pc' = "exited"
    /\ UNCHANGED <<args, containers, output_vec, tm_i, tm_out,
                   parseVars, netnsVars, nsVars, moreVars>>

NextMain ==
    \/ PodContainers \/ PodContainersFails \/ ForContainer \/ TryMainOk
    \/ DockerContainer \/ MainPrint

SpecMain == MainInit /\ [][NextMain]_vars

(***************************************************************************)
(* The correlation engine: correlate(container_links, host_links).  The    *)
(* repository declares its error (IntfMissingErr) and its result type      *)
(* (VethIntfPair) but Container::interfaces is unimplemented!() and        *)
(* get_veth_intf_pairs answers with one fixed pair, so the algorithm is    *)
(* the one of the design document: for each container-side veth record,    *)
(* take the one host-side record of the container's link-netnsid whose     *)
(* kernel index is the record's peer index, and remove it from the set.    *)
(***************************************************************************)
MaxRecords == 2
MaxIfindex == 2

Kinds == {"veth", "other"}
LinkNetnsids == {0, 1}

ContainerRecords == [kind : Kinds, peer_ifindex : 1..MaxIfindex]
HostRecords == [ifindex : 1..MaxIfindex, nsid : LinkNetnsids]

SeqsUpTo(S, n) == UNION {[1..k -> S] : k \in 0..n}

\* a pair of a container-side record and the position of a host-side record
VethIntfPair(c, n) == [container |-> c, node |-> n]

IntfMissingErr(ifindex) == Err("IntfMissingErr", ifindex, "")
AmbiguousPeerMatch == Err("AmbiguousPeerMatch", 0, "")

\* the host-side records still in the set that are the peer of c
Candidates(c, hl, left, nsid) ==
    {i \in left : hl[i].ifindex = c.peer_ifindex /\ hl[i].nsid = nsid}

\* a guess instead of an error when several records are the peer
MatchFirst(c, hl, left, nsid) ==
    LET cand == Candidates(c, hl, left, nsid)
    IN  IF cand = {} THEN [kind |-> "missing", node |-> 0]
        ELSE [kind |-> "pair", node |-> CHOOSE i \in cand : \A j \in cand : i <= j]

\* a pair with no host side instead of an error when no record is the peer
MatchOrDefault(c, hl, left, nsid) ==
    LET cand == Candidates(c, hl, left, nsid)
    IN  IF Cardinality(cand) = 1
        THEN [kind |-> "pair", node |-> CHOOSE i \in cand : TRUE]
        ELSE IF cand = {} THEN [kind |-> "pair", node |-> 0]
        ELSE [kind |-> "ambiguous", node |-> 0]

\* exactly one candidate is a match; none and several are the two errors
Match(c, hl, left, nsid) ==
    LET cand == Candidates(c, hl, left, nsid)
    IN  IF Cardinality(cand) = 1
        THEN [kind |-> "pair", node |-> CHOOSE i \in cand : TRUE]
        ELSE IF cand = {} THEN [kind |-> "missing", node |-> 0]
        ELSE [kind |-> "ambiguous", node |-> 0]

\* a read-only scan: the matched record stays in the set
TakeReadOnly(left, i) == left

\* take and remove: a matched host-side record leaves the set
Take(left, i) == left \ {i}

CorrInit ==
    /\ ParseIdle /\ NetnsIdle /\ NsIdle /\ MainIdle /\ K8sIdle /\ CmdIdle
    /\ c_links \in SeqsUpTo(ContainerRecords, MaxRecords)
    /\ h_links \in SeqsUpTo(HostRecords, MaxRecords)
    /\ co_nsid \in LinkNetnsids
    /\ h_left = DOMAIN h_links
    /\ co_i = 0
    /\ co_pc = "loop"
    /\ pairs = <<>>
    /\ unmatched = <<>>
    /\ co_out = NoResult

\* the container-side record the loop is at
CurrentRecord == c_links[co_i + 1]

\* a veth record with exactly one peer: the pair is emitted, the peer taken
CorrelateVeth ==
    /\ co_pc = "loop" /\ co_i < Len(c_links)
    /\ CurrentRecord.kind = "veth"
    /\ LET m == Match(CurrentRecord, h_links, h_left, co_nsid)
       IN  /\ m.kind = "pair"
           /\ pairs' = Append(pairs, VethIntfPair(CurrentRecord, m.node))
           /\ h_left' = Take(h_left, m.node)
    /\ co_i' = co_i + 1
    /\ UNCHANGED <<c_links, h_links, co_nsid, co_pc, unmatched, co_out,
                   corrRest>>

\* a veth record with no peer in the set
CorrelateMissing ==
    /\ co_pc = "loop" /\ co_i < Len(c_links)
    /\ CurrentRecord.kind = "veth"
    /\ Match(CurrentRecord, h_links, h_left, co_nsid).kind = "missing"
    /\ co_out' = IntfMissingErr(CurrentRecord.peer_ifindex)
    /\ co_pc' = "failed"
    /\ UNCHANGED <<c_links, h_links, co_nsid, h_left, co_i, pairs, unmatched,
                   corrRest>>

\* a veth record with several peers in the set
CorrelateAmbiguous ==
    /\ co_pc = "loop" /\ co_i < Len(c_links)
    /\ CurrentRecord.kind = "veth"
    /\ Match(CurrentRecord, h_links, h_left, co_nsid).kind = "ambiguous"
    /\ co_out' = AmbiguousPeerMatch
    /\ co_pc' = "failed"
    /\ UNCHANGED <<c_links, h_links, co_nsid, h_left, co_i, pairs, unmatched,
                   corrRest>>

\* a record that is not a veth is passed through unmatched
PassThrough ==
    /\ co_pc = "loop" /\ co_i < Len(c_links)
    /\ CurrentRecord.kind # "veth"
    /\ unmatched' = Append(unmatched, CurrentRecord)
    /\ co_i' = co_i + 1
    /\ UNCHANGED <<c_links, h_links, co_nsid, h_left, co_pc, pairs, co_out,
                   corrRest>>

\* every container-side record was handled
CorrelateReturn ==
    /\ co_pc = "loop" /\ co_i = Len(c_links)
    /\ co_out' = Ok(pairs)
    /\ co_pc' = "returned"
    /\ UNCHANGED <<c_links, h_links, co_nsid, h_left, co_i, pairs, unmatched,
                   corrRest>>

NextCorrelate ==
    \/ CorrelateVeth \/ CorrelateMissing \/ CorrelateAmbiguous
    \/ PassThrough \/ CorrelateReturn

SpecCorrelate == CorrInit /\ [][NextCorrelate]_vars

(***************************************************************************)
(* Pod::containers(): get_kubeconfig_path, the request to the API server   *)
(* and extract_container_info on the pod it answers with.                  *)
(***************************************************************************)
MaxStatuses == 2

\* a containerID is text: a scheme, a separator and the rest
DockerCid == <<"docker", "://", "c6671e7930e7">>
RktCid == <<"rkt", "://", "c6671e7930e7">>
NoHostCid == <<"docker", ":", "c6671e7930e7">>
NoSchemeCid == <<"c6671e7930e7">>

\* Url::parse(raw_cid) with cid.scheme() and cid.host_str(): text without a
\* scheme separator is an error, a host is what follows `//`
UrlParse(raw) ==
    IF Len(raw) >= 2 /\ raw[2] \in {"://", ":"}
    THEN [ok |-> TRUE, scheme |-> raw[1],
          host |-> IF raw[2] = "://" /\ Len(raw) >= 3 THEN Some(raw[3]) ELSE None]
    ELSE [ok |-> FALSE, scheme |-> "", host |-> None]

\* the entries of pod.status.container_statuses: obj.get("containerID") is
\* null (or no string) or a string
ContainerStatuses ==
    [containerID : {None, Some(DockerCid), Some(RktCid), Some(NoHostCid),
                    Some(NoSchemeCid)}]

PodStatuses ==
    {None, Some([container_statuses |-> None])}
    \cup {Some([container_statuses |-> Some(objs)]) :
             objs \in SeqsUpTo(ContainerStatuses, MaxStatuses)}

K8sPods == [status : PodStatuses, node_name : {None, Some("node-1")}]

Container(id, node_name, runtime) ==
    [id |-> id, node_name |-> node_name, runtime |-> runtime]

PodContainerDataError(ctx) == ContainersErr("PodContainerDataError", ctx)

\* `for (idx, obj) in objs.iter().enumerate()` from the entry idx on
RECURSIVE ForObj(_, _, _, _)
ForObj(objs, idx, node_name, res) ==
    IF idx > Len(objs) THEN ContainersOk(res)
    ELSE LET raw_cid == objs[idx].containerID
         IN  IF raw_cid = None
             THEN PodContainerDataError("containerID is null")
             ELSE LET cid == UrlParse(raw_cid[1])
                  IN  IF ~cid.ok THEN ContainersErr("url::ParseError", "")
                      ELSE IF cid.scheme # "docker"
                      THEN PodContainerDataError("containerID has an unsupported runtime")
                      ELSE IF cid.host = None
                      THEN PodContainerDataError("containerID has an unsupported format")
                      ELSE ForObj(objs, idx + 1, node_name,
                                  Append(res, Container(cid.host[1], node_name, "Docker")))

extract_container_info(p) ==
    IF p.status = None THEN PodContainerDataError("pod.status is null")
    ELSE LET pod_status == p.status[1]
         IN  IF pod_status.container_statuses = None
             THEN PodContainerDataError("pod.status.container_statuses is null")
             ELSE ForObj(pod_status.container_statuses[1], 1, p.node_name, <<>>)

\* a path is the sequence of its parts
AdminConf == <<"/etc/kubernetes/admin.conf">>
KubeconfigValues == {<<"/tmp/kubeconfig">>}
HomeDirs == {<<"/root">>}

\* cfg_file_path.is_file()
IsFile(f) == f = "file"

\* File::open(file) is Ok
CanOpen(f) == f = "openable"

\* /etc/kubernetes/admin.conf tried before $HOME/.kube/config
get_kubeconfig_path_admin_first(kubeconfig, home, cfg, admin) ==
    IF kubeconfig # None THEN PathOk(kubeconfig[1])
    ELSE IF CanOpen(admin) THEN PathOk(AdminConf)
    ELSE IF home # None /\ IsFile(cfg) THEN PathOk(Append(home[1], ".kube/config"))
    ELSE PathErr("KubeconfigMissing")

\* env::var("KUBECONFIG") is Ok(val); else env::home_dir() is Some(dir) and
\* dir.join(".kube/config") is a file; else the admin.conf can be opened
get_kubeconfig_path(kubeconfig, home, cfg, admin) ==
    IF kubeconfig # None THEN PathOk(kubeconfig[1])
    ELSE IF home # None /\ IsFile(cfg) THEN PathOk(Append(home[1], ".kube/config"))
    ELSE IF CanOpen(admin) THEN PathOk(AdminConf)
    ELSE PathErr("KubeconfigMissing")

K8sInit ==
    /\ ParseIdle /\ NetnsIdle /\ NsIdle /\ MainIdle /\ CorrIdle /\ CmdIdle
    /\ env_kubeconfig \in {None} \cup {Some(v) : v \in KubeconfigValues}
    /\ home_dir \in {None} \cup {Some(d) : d \in HomeDirs}
    /\ home_cfg \in {"absent", "file", "dir"}
    /\ admin_conf \in {"absent", "openable", "denied"}
    /\ pod \in K8sPods
    /\ k_pc = "get_kubeconfig_path"
    /\ k_cfg = PathErr("")
    /\ k_out = ContainersErr("", "")

\* get_pod: `let cfg = self.get_kubeconfig_path()?`
GetKubeconfigPath ==
    /\ k_pc = "get_kubeconfig_path"
    /\ LET cfg == get_kubeconfig_path(env_kubeconfig, home_dir, home_cfg, admin_conf)
       IN  /\ k_cfg' = cfg
           /\ IF cfg.ok
              THEN /\ k_pc' = "load_conf"
                   /\ UNCHANGED k_out
              ELSE /\ k_pc' = "returned"
                   /\ k_out' = ContainersErr(cfg.err, "")
    /\ UNCHANGED <<env_kubeconfig, home_dir, home_cfg, admin_conf, pod, k8sRest>>

\* get_pod: `Kubernetes::load_conf(&cfg)?`
LoadConf ==
    /\ k_pc = "load_conf"
    /\ \/ /\ k_pc' = "get"
          /\ UNCHANGED k_out
       \/ /\ k_pc' = "returned"
          /\ k_out' = ContainersErr("KubeclientError", "load_conf")
    /\ UNCHANGED <<env_kubeconfig, home_dir, home_cfg, admin_conf, pod, k_cfg, k8sRest>>

\* get_pod: `kube.namespace(self.namespace).pods().get(self.name)?`
GetPod ==
    /\ k_pc = "get"
    /\ \/ /\ k_pc' = "extract"
          /\ UNCHANGED k_out
       \/ /\ k_pc' = "returned"
          /\ k_out' = ContainersErr("KubeclientError", "get")
    /\ UNCHANGED <<env_kubeconfig, home_dir, home_cfg, admin_conf, pod, k_cfg, k8sRest>>

\* containers: `extract_container_info(pod)`
ExtractContainerInfo ==
    /\ k_pc = "extract"
    /\ k_out' = extract_container_info(pod)
    /\ k_pc' = "returned"
    /\ UNCHANGED <<env_kubeconfig, home_dir, home_cfg, admin_conf, pod, k_cfg, k8sRest>>

NextK8s == GetKubeconfigPath \/ LoadConf \/ GetPod \/ ExtractContainerInfo

SpecK8s == K8sInit /\ [][NextK8s]_vars

(***************************************************************************)
(* run_host_cmd(cmd).  A string is the sequence of its characters; a       *)
(* stream of the command is valid UTF-8 with a text, or it is not.         *)
(***************************************************************************)
Whitespace == {" ", "\n"}

\* str::trim(): the text without its leading and trailing whitespace
RECURSIVE TrimStart(_)
TrimStart(s) ==
    IF s # <<>> /\ Head(s) \in Whitespace THEN TrimStart(Tail(s)) ELSE s

RECURSIVE TrimEnd(_)
TrimEnd(s) ==
    IF s # <<>> /\ s[Len(s)] \in Whitespace
    THEN TrimEnd(SubSeq(s, 1, Len(s) - 1)) ELSE s

Trim(s) == TrimEnd(TrimStart(s))

\* cmd.split(' '): the parts between the spaces, one part even for ""
RECURSIVE SplitFrom(_, _, _)
SplitFrom(s, part, parts) ==
    IF s = <<>> THEN Append(parts, part)
    ELSE IF Head(s) = " " THEN SplitFrom(Tail(s), <<>>, Append(parts, part))
    ELSE SplitFrom(Tail(s), Append(part, Head(s)), parts)

Split(s) == SplitFrom(s, <<>>, <<>>)

HostCmdError_CmdInvalid(cmd) == CmdErr("CmdInvalid", cmd, "", <<>>)
HostCmdError_CmdFailed(cmd, code, se) == CmdErr("CmdFailed", cmd, code, se)
SpawnError == CmdErr("io::Error", <<>>, "", <<>>)
Utf8Error == CmdErr("Utf8Error", <<>>, "", <<>>)

\* any exit code counts as success
SuccessIfExited(status) == status # None

\* output.status.success(): the process exited with code 0
Success(status) == status = Some(0)

\* output.status.code().map(|c| c.to_string()).unwrap_or("N/A".to_string())
CodeString(status) == IF status = None THEN "N/A" ELSE ToString(status[1])

run_host_cmd(cmd, spawned, so, se, status) ==
    IF Split(cmd) = <<>> THEN HostCmdError_CmdInvalid(cmd)
    ELSE IF ~spawned THEN SpawnError
    ELSE IF ~se.utf8 THEN Utf8Error
    ELSE IF ~so.utf8 THEN Utf8Error
    ELSE IF Success(status) THEN CmdOk(Trim(so.text))
    ELSE HostCmdError_CmdFailed(cmd, CodeString(status), Trim(se.text))

Commands == {<<>>, <<"i", "p">>, <<"i", "p", " ", "l">>}

Texts == {<<>>, <<"\n">>, <<"a">>, <<"a", "\n">>, <<" ", "a", " ", "b", "\n">>}

Streams == {Stream(TRUE, t) : t \in Texts} \cup {Stream(FALSE, <<>>)}

\* the exit status: killed by a signal (no code), or exited with a code
Statuses == {None, Some(0), Some(1)}

CmdInit ==
    /\ ParseIdle /\ NetnsIdle /\ NsIdle /\ MainIdle /\ CorrIdle /\ K8sIdle
    /\ cm_cmd \in Commands
    /\ cm_spawned \in BOOLEAN
    /\ Head(Split(cm_cmd)) = <<>> => ~cm_spawned
    /\ cm_stdout \in Streams
    /\ cm_stderr \in Streams
    /\ cm_status \in Statuses
    /\ cm_pc = "call"
    /\ cm_out = CmdErr("", <<>>, "", <<>>)

RunCmd ==
    /\ cm_pc = "call"
    /\ cm_out' = run_host_cmd(cm_cmd, cm_spawned, cm_stdout, cm_stderr, cm_status)
    /\ cm_pc' = "returned"
    /\ UNCHANGED <<cm_cmd, cm_spawned, cm_stdout, cm_stderr, cm_status, cmdRest>>

NextCmd == RunCmd

SpecCmd == CmdInit /\ [][NextCmd]_vars

(***************************************************************************)
(* Two invocations of gen_output_for_container on the same container pid,  *)
(* as two processes: both handles name /var/run/netns/ns-<pid>, and their  *)
(* steps interleave.                                                       *)
(***************************************************************************)
NextTwo == \E h \in Handles : Invocation(h)

SpecTwo == Init /\ [][NextTwo]_vars

(***************************************************************************)
(* The claims.                                                             *)
(***************************************************************************)

\* C1: when gen_output_for_container has returned, the release of the handle
\* has removed exactly what the handle's interfaces() created: the filesystem
\* is as it was before (a symlink or a directory that was there is still
\* there) and nothing this handle created is left.
C1_ReleaseRemovesExactlyItsOwn ==
    \A h \in Handles :
        pc[h] = "returned" =>
            /\ FsState = prior
            /\ link_by # h /\ dir_by # h

\* C1 witness: the directory was there with other entries, the handle
\* created the symlink, and the release is over.
C1_Witness ==
    /\ pc["h1"] = "returned" /\ drops["h1"] = 1
    /\ made_link["h1"] /\ prior.dir /\ prior.others

\* C2: when an error of interfaces() reaches the caller, whatever step
\* failed, the symlink and the directory this invocation created are gone.
C2_ReleaseOnEveryErrorPath ==
    \A h \in Handles :
        (pc[h] = "returned" /\ ~out[h].ok) =>
            /\ made_link[h] => (link = "absent" /\ link_by # h)
            /\ made_dir[h] => (~dir_exists /\ dir_by # h)

\* C2 witness: the directory and the symlink were created, the last step
\* (the parse) failed, and the error is with the caller.
C2_Witness ==
    /\ pc["h1"] = "returned" /\ out["h1"].err = "IntfMatchError"
    /\ made_link["h1"] /\ made_dir["h1"]

EnumerationPcs == {"identify", "list", "extract", "show", "parse"}
ExitPcs == {"drop_link", "drop_dir", "returned"}

\* C4 (amended): an entry at /var/run/netns/ns-<pid> whose target resolves
\* is reused: interfaces() never calls symlink, goes on to the enumeration
\* commands and does not mark the symlink for removal.  A symlink whose
\* target does not resolve is not reused: interfaces() ends with the error
\* of symlink (EEXIST), before any enumeration command, and does not mark
\* the symlink for removal either.
C4_ResolvableBindingIsReused ==
    \A h \in {"h1"} :
        /\ prior.link = "valid" =>
              /\ pc[h] # "symlink"
              /\ ~rmlink_needed[h]
              /\ out[h].err # "io::Error"
        /\ prior.link = "dangling" =>
              /\ pc[h] \notin EnumerationPcs
              /\ ~rmlink_needed[h]
              /\ (pc[h] \in ExitPcs /\ out[h].cmd # "docker inspect")
                    => out[h] = IoError("symlink: EEXIST")

\* C4 witness: the entry was there and resolves; interfaces() is at its
\* first enumeration command without having created or marked anything.
C4_Witness ==
    /\ prior.link = "valid" /\ pc["h1"] = "identify"
    /\ ~rmlink_needed["h1"] /\ ~made_link["h1"]

\* C4 (as claimed): whatever entry is at the path, resolvable or not,
\* interfaces() returns no error from the creation step.
C4_AnyExistingEntryIsReused ==
    \A h \in {"h1"} :
        prior.link # "absent" => (out[h].err # "io::Error" /\ ~rmlink_needed[h])

\* the entries the caller asks for: name@peer with link-netnsid equal to id
Wanted(e, id) == e.peer # None /\ e.nsid = DecimalDigits(id)

Names(s) == [i \in 1..Len(s) |-> s[i].name]

\* C5 (as claimed): an Ok result holds exactly the name@peer entries whose
\* link-netnsid equals the requested id, in the order of the dump.
C5_ExactlyTheEntriesOfTheId ==
    (parse_pc = "returned" /\ parse_out.ok) =>
        Names(parse_out.intfs)
            = Names(SelectSeq(printout, LAMBDA e : Wanted(e, req_id)))

\* C6 (as claimed): the dump of test_parse_ip_link_printout_multus looked
\* up with id 6 gives one record, with the bridge bla-bla-int0 in full.
C6_HyphenatedBridgeInFull ==
    (parse_pc = "returned" /\ printout = MultusDump /\ req_id = 6) =>
        parse_out = Ok(<<Intf(<<"veth987c7292">>, 1500, "46:ed:60:c6:e9:73",
                              Some(<<"bla", Hyphen, "bla", Hyphen, "int0">>))>>)

\* C7 (as claimed): when no entry of the dump has the requested
\* link-netnsid, the result is the error IntfMatchError(id).
C7_NoMatchIsAnError ==
    (parse_pc = "returned" /\ \A i \in 1..Len(printout) : ~Wanted(printout[i], req_id))
        => parse_out = IntfMatchError(req_id)

\* the half of C7 that the code keeps: an Ok result is never empty
OkIsNeverEmpty == (parse_pc = "returned" /\ parse_out.ok) => parse_out.intfs # <<>>

\* C8: every record of an Ok result has the name, the MTU and the MAC of one
\* matched entry, the MTU being its number within u16; and when a matched
\* entry has an MTU that does not parse, the result is an error that holds
\* no record, those of earlier entries included.
C8_NoPartialRecord ==
    parse_pc = "returned" =>
        /\ \A i \in 1..Len(parse_out.intfs) :
              \E j \in 1..Len(printout) :
                  /\ RegexMatches(printout[j], req_id)
                  /\ parse_out.intfs[i].name = printout[j].name
                  /\ parse_out.intfs[i].mac_address = printout[j].mac
                  /\ parse_out.intfs[i].mtu = DigitsValue(printout[j].mtu)
                  /\ DigitsValue(printout[j].mtu) <= U16Max
        /\ (\E j \in 1..Len(printout) :
               /\ RegexMatches(printout[j], req_id)
               /\ DigitsValue(printout[j].mtu) > U16Max)
              => (~parse_out.ok /\ parse_out.intfs = <<>>)

\* C8 witness: the first entry matched and parsed, the second matched with
\* an MTU beyond u16, and the call returned the parse error.
C8_Witness ==
    /\ parse_pc = "returned" /\ parse_out = ParseIntError
    /\ Len(printout) = 2
    /\ RegexMatches(printout[1], req_id) /\ ParseU16(printout[1].mtu).ok
    /\ RegexMatches(printout[2], req_id) /\ ~ParseU16(printout[2].mtu).ok

\* C9 (as claimed): when get_intfs has returned, with Ok or Err, or has
\* panicked, the process is in the namespace it was in at the call.
C9_NamespaceRestored ==
    gi_pc \in {"returned", "panicked"} => active_ns = entry_ns

\* C10 (as claimed): once the pod's containers are listed and main has
\* printed, the output of every healthy container is part of what is printed.
C10_HealthyContainersReported ==
    (tm_pc = "exited" /\ args.cmd_pod /\ tm_i >= 1) =>
        \A i \in 1..Len(containers) :
            containers[i].healthy =>
                \E k \in 1..Len(reported) : reported[k] = containers[i].id

\* the host-side records that are the peer of the pair k's container side
PeersOf(k) ==
    {j \in DOMAIN h_links : /\ h_links[j].ifindex = pairs[k].container.peer_ifindex
                            /\ h_links[j].nsid = co_nsid}

\* the host-side records taken by the pairs before the pair k
TakenBefore(k) == {pairs[m].node : m \in 1..(k - 1)}

\* C11: a container-side veth record whose peer index is the kernel index of
\* no host-side record in the set ends the correlation with
\* IntfMissingErr(peer index); every emitted pair has a host side that is one
\* of the host-side records, with that kernel index, and every veth record
\* handled so far has its pair.
C11_MissingPeerIsAnError ==
    /\ \A k \in DOMAIN pairs :
          /\ pairs[k].node \in DOMAIN h_links
          /\ pairs[k].node \in PeersOf(k)
    /\ Len(pairs) = Cardinality({i \in 1..co_i : c_links[i].kind = "veth"})
    /\ (co_pc = "failed" /\ Candidates(CurrentRecord, h_links, h_left, co_nsid) = {})
          => co_out = IntfMissingErr(CurrentRecord.peer_ifindex)
    /\ co_out.ok => co_pc = "returned"

\* C11 witness: a pair was emitted, and the next veth record has no peer
C11_Witness ==
    /\ co_pc = "failed" /\ Len(pairs) >= 1
    /\ Candidates(CurrentRecord, h_links, h_left, co_nsid) = {}
    /\ \A j \in DOMAIN h_links : h_links[j].ifindex # CurrentRecord.peer_ifindex
    /\ co_out.err = "IntfMissingErr"

\* C12: a container-side veth record with two or more host-side records of
\* its link-netnsid at its peer index ends the correlation with
\* AmbiguousPeerMatch, and a pair is only emitted for a record whose peer
\* was the single one left in the set.
C12_AmbiguousPeerIsAnError ==
    /\ (co_pc = "failed"
          /\ Cardinality(Candidates(CurrentRecord, h_links, h_left, co_nsid)) >= 2)
          => co_out = AmbiguousPeerMatch
    /\ \A k \in DOMAIN pairs : PeersOf(k) \ TakenBefore(k) = {pairs[k].node}

\* C12 witness: two host-side records of the link-netnsid share the peer index
C12_Witness ==
    /\ co_pc = "failed"
    /\ Cardinality(Candidates(CurrentRecord, h_links, h_left, co_nsid)) >= 2
    /\ co_out.err = "AmbiguousPeerMatch"

\* C13: no host-side record is the host side of two pairs.
C13_HostRecordInAtMostOnePair ==
    \A k, m \in DOMAIN pairs : pairs[k].node = pairs[m].node => k = m

\* C13 witness: a second veth record names the peer index of a record that
\* an earlier pair has taken, and does not get it
C13_Witness ==
    /\ co_pc = "failed" /\ Len(pairs) >= 1
    /\ \E k \in DOMAIN pairs :
          /\ h_links[pairs[k].node].ifindex = CurrentRecord.peer_ifindex
          /\ pairs[k].node \notin h_left
    /\ co_out.err = "IntfMissingErr"

\* C14: when gen_output_for_container has returned after building a Netns,
\* the value it returned is the Result of interfaces() (the interfaces under
\* Ok, the error under the context of the call), whichever of remove_file
\* and remove_dir failed in Drop.
C14_RemovalFailureNeverMasksTheOutcome ==
    \A h \in Handles :
        (pc[h] = "returned" /\ calls[h] >= 1) =>
            /\ ret[h].ok = out[h].ok
            /\ ret[h].interfaces = out[h].intfs
            /\ ~out[h].ok => (ret[h].cause = out[h] /\ ret[h].context = Ctx2)

\* C14 witness: interfaces() succeeded, both removals of Drop failed
C14_Witness ==
    /\ pc["h1"] = "returned"
    /\ rm_failed["h1"] = {"file", "dir"}
    /\ out["h1"].ok /\ ret["h1"].ok
    /\ ret["h1"].interfaces # <<>>

\* C15: extract_container_info never returns Ok with an empty list of
\* containers: a pod whose status is null, whose container_statuses is null
\* or whose container_statuses is an empty list gives an error.
C15_NeverOkWithNoContainer ==
    (k_pc = "returned" /\ k_out.ok) => k_out.containers # <<>>

\* C17: once get_kubeconfig_path has run, its result follows the order
\* $KUBECONFIG, $HOME/.kube/config, /etc/kubernetes/admin.conf: the value of
\* $KUBECONFIG when it is set, whatever the files; else $HOME/.kube/config
\* when it is a file; else the admin.conf when it can be opened; else the
\* error KubeconfigMissing.
C17_KubeconfigPrecedence ==
    k_pc \notin {"idle", "get_kubeconfig_path"} =>
        LET home_file == home_dir # None /\ home_cfg = "file"
        IN  /\ env_kubeconfig # None => k_cfg = PathOk(env_kubeconfig[1])
            /\ (env_kubeconfig = None /\ home_file)
                  => k_cfg = PathOk(home_dir[1] \o <<".kube/config">>)
            /\ (env_kubeconfig = None /\ ~home_file /\ admin_conf = "openable")
                  => k_cfg = PathOk(<<"/etc/kubernetes/admin.conf">>)
            /\ (env_kubeconfig = None /\ ~home_file /\ admin_conf # "openable")
                  => k_cfg = PathErr("KubeconfigMissing")

\* C17 witness: $KUBECONFIG is unset, $HOME/.kube/config is a file and the
\* admin.conf can be opened too; the file under $HOME was returned
C17_Witness ==
    /\ k_pc = "load_conf"
    /\ env_kubeconfig = None /\ home_dir # None /\ home_cfg = "file"
    /\ admin_conf = "openable"
    /\ k_cfg.ok /\ k_cfg.path = <<"/root", ".kube/config">>

\* C16: every record parse_ip_link_printout emits carries, besides the name,
\* the MTU, the bridge and the MAC address, the kernel index of its entry and
\* the peer kernel index of the entry's `@if<N>` suffix.
C16_RecordsCarryKernelAndPeerIndex ==
    (parse_pc = "returned" /\ parse_out.ok) =>
        \A i \in DOMAIN parse_out.intfs :
            \E k \in DOMAIN printout :
                /\ printout[k].name = parse_out.intfs[i].name
                /\ {"ifindex", "peer_ifindex"} \subseteq DOMAIN parse_out.intfs[i]
                /\ parse_out.intfs[i].ifindex = printout[k].idx
                /\ parse_out.intfs[i].peer_ifindex = printout[k].peer

\* t is s without the whitespace around it
IsTrimOf(t, s) ==
    /\ t # <<>> => (t[1] \notin Whitespace /\ t[Len(t)] \notin Whitespace)
    /\ \E i \in 1..(Len(s) + 1) :
          /\ SubSeq(s, i, i + Len(t) - 1) = t
          /\ \A k \in DOMAIN s : (k < i \/ k >= i + Len(t)) => s[k] \in Whitespace

\* C18 as stated: whenever the command was run and did not exit with
\* success, run_host_cmd returns CmdFailed with the command, the exit code
\* (or "N/A") and the trimmed stderr.
C18_UnsuccessfulExitIsCmdFailed ==
    (cm_pc = "returned" /\ cm_spawned /\ cm_status # Some(0)) =>
        /\ cm_out.err = "CmdFailed"
        /\ cm_out.cmd = cm_cmd
        /\ cm_out.code = (IF cm_status = None THEN "N/A" ELSE ToString(cm_status[1]))

\* C18, amended: run_host_cmd returns Ok exactly when the command was
\* spawned, stderr and stdout are valid UTF-8 and the exit status is success,
\* and the value is the trimmed stdout; a stream that is not valid UTF-8 gives
\* the UTF-8 error whatever the exit status; an unsuccessful exit with valid
\* streams gives CmdFailed with the command, the code (or "N/A") and the
\* trimmed stderr.
C18_OkIffSpawnedUtf8Success ==
    cm_pc = "returned" =>
        LET utf8 == cm_stderr.utf8 /\ cm_stdout.utf8
        IN  /\ cm_out.ok <=> (cm_spawned /\ utf8 /\ cm_status = Some(0))
            /\ cm_out.ok => IsTrimOf(cm_out.stdout, cm_stdout.text)
            /\ (cm_spawned /\ ~utf8) => cm_out.err = "Utf8Error"
            /\ (cm_spawned /\ utf8 /\ cm_status # Some(0)) =>
                  /\ cm_out.err = "CmdFailed"
                  /\ cm_out.cmd = cm_cmd
                  /\ cm_out.code = (IF cm_status = None THEN "N/A"
                                    ELSE ToString(cm_status[1]))
                  /\ IsTrimOf(cm_out.stderr, cm_stderr.text)

\* C18 witness: the command exited with code 1, its streams are valid UTF-8
\* with whitespace around the text, and CmdFailed carries the trimmed stderr
C18_Witness ==
    /\ cm_pc = "returned" /\ cm_spawned /\ cm_status = Some(1)
    /\ cm_stdout.utf8
    /\ cm_stderr = Stream(TRUE, <<" ", "a", " ", "b", "\n">>)
    /\ cm_out.err = "CmdFailed" /\ cm_out.code = "1"
    /\ cm_out.stderr = <<"a", " ", "b">>

\* C19: in every step of a handle, Netns::new changes nothing in the
\* filesystem and leaves both marks false; a mark becomes true only in the
\* step in which this handle creates the directory, respectively the symlink;
\* a mark that is true stays true; and a handle creates the directory and the
\* symlink at most once each, however often interfaces() is called on it.
C19_CreatedLazilyAndAtMostOnce ==
    [][\A h \in {"h1"} :
          /\ (pc[h] = "start" /\ pc'[h] = "check_dir") =>
                /\ UNCHANGED <<dir_exists, dir_others, link>>
                /\ ~rmdir_needed'[h] /\ ~rmlink_needed'[h]
          /\ (~rmdir_needed[h] /\ rmdir_needed'[h]) =>
                (~dir_exists /\ dir_exists' /\ dir_by' = h)
          /\ (~rmlink_needed[h] /\ rmlink_needed'[h]) =>
                (link = "absent" /\ link' = "valid" /\ link_by' = h)
          /\ rmdir_needed[h] => rmdir_needed'[h]
          /\ rmlink_needed[h] => rmlink_needed'[h]
          /\ (~dir_exists /\ dir_exists' /\ dir_by' = h) => ~made_dir[h]
          /\ (link # "valid" /\ link' = "valid" /\ link_by' = h) => ~made_link[h]
      ]_vars

\* C19 witness: the second call of interfaces() on the handle found the
\* directory and the symlink its first call had created, and both marks are
\* still true
C19_Witness ==
    /\ calls["h1"] = 2 /\ pc["h1"] = "identify"
    /\ made_dir["h1"] /\ made_link["h1"]
    /\ dir_by = "h1" /\ link_by = "h1"
    /\ rmdir_needed["h1"] /\ rmlink_needed["h1"]

\* the steps of interfaces(), in the order of its statements
StepOrder == <<"ensure_dir", "ensure_link", "identify", "list", "extract", "show",
               "parse">>

\* the step an error of interfaces() comes from
StepOfError(res) ==
    CASE res.err = "io::Error" /\ res.cmd = "create_dir_all" -> "ensure_dir"
      [] res.err = "io::Error" /\ res.cmd # "create_dir_all" -> "ensure_link"
      [] res.err = "CmdFailed" /\ res.cmd = "ip netns identify" -> "identify"
      [] res.err = "CmdFailed" /\ res.cmd = "ip netns list" -> "list"
      [] res.err = "OutputParsingError" -> "extract"
      [] res.err = "CmdFailed" /\ res.cmd = "ip link show" -> "show"
      [] res.err \in {"IntfMatchError", "ParseIntError"} -> "parse"
      [] OTHER -> "none"

\* C20: the steps a call of interfaces() has entered are always an initial
\* part of the fixed order; a call that ended with an error entered no step
\* after the one the error comes from, and a call that ended with Ok entered
\* them all; an `ip` command is only about to run when the directory and a
\* resolvable symlink are there; and parse_ip_link_printout is entered only
\* after `ip netns list` and the extraction of the id from its output.
C20_FixedOrderAndFailFast ==
    \A h \in {"h1"} :
        /\ IsPrefix(steps[h], StepOrder)
        /\ (pc[h] \in ExitPcs /\ calls[h] >= 1 /\ ~out[h].ok) =>
              (steps[h] # <<>> /\ steps[h][Len(steps[h])] = StepOfError(out[h]))
        /\ (pc[h] \in ExitPcs /\ calls[h] >= 1 /\ out[h].ok) => steps[h] = StepOrder
        /\ pc[h] \in {"identify", "list", "show"} => (dir_exists /\ link = "valid")
        /\ (pc[h] = "parse" \/ (Len(steps[h]) = 7 /\ steps[h][7] = "parse")) =>
              (Len(steps[h]) >= 5 /\ SubSeq(steps[h], 4, 5) = <<"list", "extract">>)

\* C20 witness: the extraction of the id failed after both commands had run,
\* and the call ended there
C20_Witness ==
    /\ pc["h1"] = "returned"
    /\ out["h1"].err = "OutputParsingError"
    /\ steps["h1"] = <<"ensure_dir", "ensure_link", "identify", "list", "extract">>

\* the positions of an invocation between its existence check of the binding
\* and the end of its enumeration commands
CommandPcs == {"identify", "list", "extract", "show"}

\* C21: with two invocations on the same pid, the binding an invocation
\* created or found present is there (and resolves) for as long as that
\* invocation is between its existence check and the end of its enumeration
\* commands; an invocation that found the path absent still finds it absent
\* when it calls symlink, and none fails with EEXIST or ENOENT on a path that
\* was absent, in an existing directory, when the invocations started.
C21_BindingOwnedExclusively ==
    \A h \in Handles :
        /\ pc[h] \in CommandPcs => (dir_exists /\ link = "valid")
        /\ (pc[h] = "symlink" /\ prior.link = "absent") => link = "absent"
        /\ (prior.dir /\ prior.link = "absent") =>
              ~(out[h].err = "io::Error"
                /\ out[h].cmd \in {"symlink: EEXIST", "symlink: ENOENT"})

====
